---- MODULE Spec2Model ----
(***************************************************************************)
(* The concurrent row-processing pipeline of Vertical_Analysis: the five   *)
(* classification stages (company_type, assign_vert, sub_vertical,         *)
(* scoring, website_info_perplexity), each a sweep over a CSV dataset that *)
(* fans rows out to a remote classifier under a semaphore, retries,        *)
(* and writes results back to the dataset file.                            *)
(*                                                                         *)
(* Texts (cell values, replies, error strings) are sequences of lexical    *)
(* tokens; " " is the whitespace token, so strip(), startswith() and       *)
(* substring tests are computed on them.                                   *)
(*                                                                         *)
(* The process runs on one thread (asyncio): a task runs from one await to *)
(* the next without interleaving.  A file write is split in two steps      *)
(* (open/truncate or temp-file written, then close or os.replace) so that  *)
(* the file a kill would leave behind is the value of disk in every state. *)
(***************************************************************************)
EXTENDS Integers, Sequences, FiniteSets, TLC

\* ------------------------------------------------------------------ bounds
NumRows   == 2      \* rows of the dataset
Cap       == 1      \* the semaphore's size, scaled down from CONCURRENCY
WebCap    == 2      \* website_info's own semaphore, scaled down from Semaphore(6)
MaxFaults == 1      \* uncaught faults (bad row, failing open) injected per run
SaveEvery == 1      \* the batched cadence, scaled down from SAVE_EVERY
MaxFailures == 3    \* attempts of remote calls that fail or time out per run

\* ------------------------------------------------------ program constants
MAX_RETRIES == 3

Stages == {"company_type", "assign_vert", "sub_vertical", "scoring", "website_info"}
RetryStages == {"assign_vert", "sub_vertical", "scoring"}
\* stages whose dataset file is a separate OUTPUT_CSV read back for resume
TwoFileStages == {"company_type", "website_info"}

Keys == {"", "u1", "u2"}          \* stripped values of the stage's key column
\* the configuration: complete, or the API credential, the prompt file(s) or
\* the input file missing
Configs == {"ok", "no_key", "no_prompt", "no_input"}
PreVals == {"ok", "N/A"}          \* the prerequisite column: usable, or a sentinel
Idx == 1..NumRows

\* the size of the stage's semaphore
CapOf(st) == IF st = "website_info" THEN WebCap ELSE Cap
Main == 0 - 1                      \* the dispatcher, as the owner of a file write

\* ------------------------------------------------------------------- texts
SP == " "

RECURSIVE LStrip(_)
LStrip(s) == IF s # <<>> /\ Head(s) = SP THEN LStrip(Tail(s)) ELSE s

RECURSIVE RStrip(_)
RStrip(s) == IF s # <<>> /\ s[Len(s)] = SP THEN RStrip(SubSeq(s, 1, Len(s) - 1)) ELSE s

\* str.strip()
Strip(s) == RStrip(LStrip(s))

\* str.startswith(p)
StartsWith(s, p) == Len(s) >= Len(p) /\ SubSeq(s, 1, Len(p)) = p

\* tok in s
Contains(s, tok) == \E n \in 1..Len(s) : s[n] = tok

\* s.split(tok, 1)[1], for a text that contains tok
AfterFirst(s, tok) ==
    LET n == CHOOSE m \in 1..Len(s) : s[m] = tok /\ \A l \in 1..(m - 1) : s[l] # tok
    IN  SubSeq(s, n + 1, Len(s))

\* str(result) of a response object whose text is empty
Repr == <<"Response(...)">>

\* the text the remote classifier can answer with
Replies ==
    [st \in Stages |->
       IF st = "website_info"
       THEN {<<"<think>", "</think>", SP, "Info">>, <<SP>>, <<>>}
       ELSE {<<"Meat", SP>>, <<SP>>, <<>>}]

\* what one attempt of the remote call can end in
Outcomes ==
    [st \in Stages |->
       [kind : {"ok"}, text : Replies[st]]
         \cup [kind : (IF st = "website_info" THEN {"error"} ELSE {"timeout", "error"}),
               text : {<<>>}]]

\* the text a stage takes from a successful response
ExtractText(st, reply) ==
    CASE st \in {"company_type", "assign_vert", "sub_vertical"} ->
           Strip(IF reply # <<>> THEN reply ELSE Repr)
      [] st = "scoring" -> Strip(reply)
      [] OTHER ->
           IF reply # <<>> /\ Contains(reply, "</think>")
           THEN Strip(AfterFirst(reply, "</think>"))
           ELSE reply

\* the prefix convention
ErrorPrefix == <<"ERROR", ":">>

\* type(e).__name__ and str(e) of the exception of a failed attempt
ErrType(kind) == IF kind = "timeout" THEN "TimeoutError" ELSE "APIError"
ErrMsg(kind) == IF kind = "timeout" THEN <<>> ELSE <<"boom">>

\* the string a stage stores when the call failed for good
ErrorString(st, kind) ==
    CASE st = "assign_vert" ->
           <<"ERROR", " after ", ToString(MAX_RETRIES), " attempts", ":", SP,
             ErrType(kind), ":", SP>> \o ErrMsg(kind)
      [] st = "scoring" ->
           <<"ERROR", ":", SP, "Failed after ", ToString(MAX_RETRIES), " attempts", ":", SP,
             ErrType(kind), ":", SP>> \o ErrMsg(kind)
      [] OTHER ->
           IF kind = "timeout" /\ st # "website_info"
           THEN <<"ERROR", ":", SP, "timeout">>
           ELSE <<"ERROR", ":", SP>> \o ErrMsg("error")

\* the exception a task raises outside its own handlers
FaultMsg == <<"'NoneType' object has no attribute 'strip'">>

\* the string the dispatcher stores for a task that raised
TaskErrorString(st) ==
    IF st = "scoring"
    THEN <<"ERROR", ":", SP, "Exception in task", ":", SP, "AttributeError", ":", SP>> \o FaultMsg
    ELSE <<"ERROR", ":", SP>> \o FaultMsg

\* backoff before the next attempt: 2 ** (attempt - 1)
BackoffFlat(attempt) == 1
Backoff(attempt) == 2 ^ (attempt - 1)

\* -------------------------------------------------------------------- rows
\* a row: its key column, its other columns (body: the row's own content),
\* the stage's prerequisite column and the stage's output column
SetOut(seq, j, v) == [seq EXCEPT ![j].out = v]

HasKey(seq, k) == \E j \in 1..Len(seq) : seq[j].key = k

\* index of the first / the last row of seq with key k
FirstWithKey(seq, k) ==
    CHOOSE j \in 1..Len(seq) : seq[j].key = k /\ \A l \in 1..(j - 1) : seq[l].key # k

LastWithKey(seq, k) ==
    CHOOSE j \in 1..Len(seq) : seq[j].key = k /\ \A l \in (j + 1)..Len(seq) : seq[l].key # k

\* the value left in the output column by an earlier run
OldValue(i) == <<"old", ToString(i)>>

\* what an earlier run left of a row: nothing, an answer, or the error string
\* of a call that failed
OldKinds == {"none", "done", "failed"}
OldOutput(st, i, kind) ==
    CASE kind = "none" -> <<>>
      [] kind = "done" -> OldValue(i)
      [] OTHER         -> ErrorString(st, "error")

VARIABLES
    stage,      \* the stage that runs
    orig,       \* the dataset as it was when the stage started
    rows,       \* the in-memory list of row dicts
    disk,       \* the stage's dataset file: [rows, complete]
    wr,         \* the file write in progress: [who, content]
    task,       \* per row: the task's position, attempt, backoff waits, kind of the outcome
                \* of its last attempt once it has its output, output
    sem,        \* free slots of the semaphore
    lock,       \* holder of file_lock (0: free)
    mpc,        \* the dispatcher's position
    calls,      \* per row: remote calls issued
    pmap,       \* sub_vertical's processed_map: key -> row index (0: absent)
    count,      \* sub_vertical's processed_count
    faults,     \* faults injected so far
    failures,   \* attempts that failed or timed out so far
    persisted,  \* tasks whose result a completed save has written
    config,     \* what the stage finds of its configuration
    hascol,     \* the dataset file has the stage's output column
    cols,       \* column names: [orig: the dataset file's header when the stage starts,
                \* file: the header of its last complete version, names: fieldnames]
    pipe        \* main.py: [pc: the step to run next, running, files, loaded: the file the
                \* step ran read, subin: sub_vertical's INPUT_CSV]

vars == <<stage, orig, rows, disk, wr, task, sem, lock, mpc, calls, pmap, count, faults, failures,
          persisted, config, hascol, cols, pipe>>

\* the state of one stage's run
stagevars == <<stage, orig, rows, disk, wr, task, sem, lock, mpc, calls, pmap, count, faults,
               failures, persisted, config, hascol, cols>>

NoWrite == [who |-> 0, content |-> <<>>]
IdleTask == [pc |-> "idle", attempt |-> 1, waits |-> <<>>, last |-> "none", output |-> <<>>]

\* the stages whose code tests the key for blankness (if not record_id, if not url)
BlankKeySkipped == {"sub_vertical", "website_info"}

\* the code compares keys for equality only, and for blankness in the stages
\* above, so one key column stands for all that collide in the same way: "u2"
\* appears only after "u1", and where a blank key is a key like any other "u1"
\* appears only after ""
Canonical(st, k) ==
    \A i \in Idx :
       /\ k[i] = "u2" => \E j \in 1..(i - 1) : k[j] = "u1"
       /\ (k[i] = "u1" /\ st \notin BlankKeySkipped) => \E j \in 1..(i - 1) : k[j] = ""

\* the columns of the input: the key, the row's other columns, the prerequisite
InputCols == {"key", "body", "pre"}

\* the header of the stage's dataset file when the stage starts: the file a
\* two-file stage writes has the output column and a column the input lacks
Header(st, has) ==
    IF st \in TwoFileStages THEN InputCols \cup {"out", "extra"}
    ELSE InputCols \cup (IF has THEN {"out"} ELSE {})

\* fieldnames, as the stage builds it when it loads its files
Fieldnames(st, filecols) ==
    CASE st = "company_type" -> InputCols \cup {"out"}
      [] st = "website_info" -> InputCols \cup filecols \cup {"out"}
      [] OTHER               -> filecols \cup {"out"}

\* the header a write gives the file: scoring's per-row save takes the columns
\* of the file it has just re-read
WriteCols(st, which, c) ==
    IF st = "scoring" /\ which = "row" THEN c.file \cup {"out"} ELSE c.names

\* main.py has not been started: a stage is run on its own
NoPipe == [pc |-> 0, running |-> FALSE, files |-> <<>>, ran |-> 0, loaded |-> <<>>, subin |-> ""]

StageInit ==
    /\ stage \in Stages
    /\ \E k \in [Idx -> Keys], p \in [Idx -> PreVals], d \in [Idx -> OldKinds] :
          /\ Canonical(stage, k)
          /\ \A i \in Idx : d[i] # "none" => p[i] = "ok"
          \* website_info reads no prerequisite column but the URL
          /\ stage = "website_info" => \A i \in Idx : p[i] = "ok"
          /\ orig = [i \in Idx |->
                        [key |-> k[i], body |-> i, pre |-> p[i],
                         out |-> OldOutput(stage, i, d[i])]]
    \* the input file as loaded; the input of a two-file stage has no output column
    /\ rows = IF stage \in TwoFileStages THEN [i \in Idx |-> [orig[i] EXCEPT !.out = <<>>]]
              ELSE orig
    /\ disk = [rows |-> orig, complete |-> TRUE]
    /\ wr = NoWrite
    /\ task = [i \in Idx |-> IdleTask]
    /\ sem = CapOf(stage)
    /\ lock = 0
    /\ config \in Configs
    \* a configuration error is met on a dataset no row of which is done or lacks
    \* its prerequisite
    /\ config # "ok" => \A i \in Idx : orig[i].out = <<>> /\ orig[i].pre = "ok"
    \* scoring.py runs module-level code when it is imported; its Score column
    \* can be missing only from a file no row of which has a score
    /\ hascol \in {TRUE} \cup {b \in {FALSE} : stage = "scoring" /\ \A i \in Idx : orig[i].out = <<>>}
    /\ cols = [orig |-> Header(stage, hascol), file |-> Header(stage, hascol), names |-> {}]
    /\ mpc = IF stage = "scoring" THEN "import" ELSE "start"
    /\ calls = [i \in Idx |-> 0]
    /\ pmap = [k \in Keys |-> 0]
    /\ count = 0
    /\ faults = 0
    /\ failures = 0
    /\ persisted = {}

Init == StageInit /\ pipe = NoPipe

\* ---------------------------------------------------- eligibility, work list
\* the output column holds no text yet
Pending(r) == Strip(r.out) = <<>>

\* the stage's prerequisite on a row whose output column is empty
EligibleBlankKey(st, r) ==
    CASE st = "company_type" -> r.pre # "N/A"
      [] st \in {"assign_vert", "sub_vertical", "scoring"} -> r.pre = "ok"
      [] OTHER               -> r.key # ""
Eligible(st, r) ==
    CASE st = "company_type" -> r.pre # "N/A"
      [] st = "assign_vert"  -> r.pre = "ok"
      [] st = "sub_vertical" -> r.key # "" /\ r.pre = "ok"
      [] st = "scoring"      -> r.pre = "ok"
      [] OTHER               -> r.key # ""

\* company_type's existing_types[k]: the last non-empty value saved for key k
ExistingType(file, k) ==
    LET S == {j \in 1..Len(file) : file[j].key = k /\ Strip(file[j].out) # <<>>}
    IN  IF S = {} THEN <<>>
        ELSE Strip(file[CHOOSE j \in S : \A l \in S : l <= j].out)

\* the rows in memory once the saved output has been merged into the input
Loaded(st, mem, file) ==
    CASE st = "company_type" ->
           [i \in 1..Len(mem) |->
              IF ExistingType(file, mem[i].key) # <<>>
              THEN [mem[i] EXCEPT !.out = ExistingType(file, mem[i].key)]
              ELSE mem[i]]
      [] st = "website_info" ->
           [i \in 1..Len(mem) |->
              IF HasKey(file, mem[i].key) THEN file[LastWithKey(file, mem[i].key)]
              ELSE mem[i]]
      [] OTHER -> mem

\* the rows a task is created for and that reach the remote call
WorkItem(st, mem, file, i) ==
    IF st = "company_type"
    THEN ExistingType(file, mem[i].key) = <<>> /\ Eligible(st, mem[i])
    ELSE Pending(Loaded(st, mem, file)[i]) /\ Eligible(st, Loaded(st, mem, file)[i])

\* which file writes go through a temporary file and os.replace
AtomicWrite(st, which) ==
    CASE st = "assign_vert"  -> TRUE
      [] st = "sub_vertical" -> TRUE
      [] st = "company_type" -> which = "final"
      [] OTHER               -> FALSE

\* the file once a write has begun: untouched while a temp file is written,
\* truncated by open(path, 'w')
Opened(file, atomic) == IF atomic THEN file ELSE [rows |-> <<>>, complete |-> FALSE]

Terminal == {"idle", "done", "raised", "cancelled"}
Tasks == {i \in Idx : task[i].pc # "idle"}
HoldsSlotWholeTask == stage # "scoring"

\* the event loop can run a task: no task is inside a file write, which is
\* synchronous code (no await between the merge and the end of the write)
LoopFreeAlways == TRUE
LoopFree == wr.who = 0

\* the stages that take file_lock around their save
LockStages == {"assign_vert", "scoring"}

\* async with SEMAPHORE: a slot is free
SlotFreeOpen == TRUE
SlotFree == sem > 0

\* the order in which waiting tasks get a slot.  The tasks are created and first
\* run in work-list order and the semaphore wakes its waiters first-in first-out,
\* so where a task enters the semaphore once (sem_task, limited_request) the
\* waiting task with the lowest index is next.  In scoring a task re-enters the
\* semaphore for every attempt, in the order the backoff timers fire: any order.
NextInLine(i) ==
    HoldsSlotWholeTask => \A j \in 1..(i - 1) : task[j].pc # "queued"

\* -------------------------------------------------------------- dispatcher
\* scoring.py at import: read the input file and, when the Score column is
\* missing, rewrite the file with the column added (open(input_path, 'w'))
ImportModule ==
    /\ mpc = "import"
    /\ IF config = "no_input"
       THEN mpc' = "refused" /\ UNCHANGED <<wr, disk>>
       ELSE IF ~hascol
       THEN /\ mpc' = "importing"
            /\ wr' = [who |-> Main, content |-> disk.rows]
            /\ disk' = Opened(disk, FALSE)
       ELSE mpc' = "start" /\ UNCHANGED <<wr, disk>>
    /\ UNCHANGED <<pipe, cols, config, hascol, stage, orig, rows, task, sem, lock, calls, pmap, count,
                   faults, failures, persisted>>

\* the write of the import completes
ImportEnd ==
    /\ mpc = "importing"
    /\ wr.who = Main
    /\ disk' = [rows |-> wr.content, complete |-> TRUE]
    /\ hascol' = TRUE
    /\ cols' = [cols EXCEPT !.file = @ \cup {"out"}]
    /\ wr' = NoWrite
    /\ mpc' = "start"
    /\ UNCHANGED <<pipe, config, stage, orig, rows, task, sem, lock, calls, pmap, count,
                   faults, failures, persisted>>

\* does the stage stop at its configuration checks.  sub_vertical falls back to
\* an empty template when its prompt files are missing, scoring skips the rows
\* whose prompt file is missing and has read its input at import
Refuses(st, cfg) ==
    CASE st = "sub_vertical" -> cfg \in {"no_key", "no_input"}
      [] st = "scoring"      -> cfg = "no_key"
      [] OTHER               -> cfg # "ok"

\* the stage returns (or raises) at a configuration check
Refuse ==
    /\ mpc = "start"
    /\ Refuses(stage, config)
    /\ mpc' = "refused"
    /\ UNCHANGED <<pipe, cols, config, hascol, stage, orig, rows, disk, wr, task, sem, lock, calls, pmap,
                   count, faults, failures, persisted>>

\* load, merge the saved output, build the work list and create the tasks;
\* company_type with nothing to process rewrites the output file at once
Prepare ==
    /\ mpc = "start"
    /\ ~Refuses(stage, config)
    /\ LET mem  == Loaded(stage, rows, disk.rows)
           mem2 == IF stage = "company_type"
                   THEN [i \in Idx |->
                           IF ExistingType(disk.rows, mem[i].key) = <<>> /\ mem[i].pre = "N/A"
                           THEN [mem[i] EXCEPT !.out = <<>>] ELSE mem[i]]
                   ELSE mem
           work == {i \in Idx : /\ WorkItem(stage, rows, disk.rows, i)
                                 /\ ~(stage = "scoring" /\ config = "no_prompt")}
       IN  /\ rows' = mem2
           /\ cols' = [cols EXCEPT !.names = Fieldnames(stage, cols.file)]
           /\ task' = [i \in Idx |->
                         IF i \in work THEN [IdleTask EXCEPT !.pc = "queued"]
                         ELSE IF stage = "scoring" THEN [IdleTask EXCEPT !.pc = "done"]
                         ELSE IdleTask]
           /\ IF stage = "company_type" /\ work = {}
              THEN /\ mpc' = "final"
                   /\ wr' = [who |-> Main, content |-> mem2]
                   /\ disk' = Opened(disk, AtomicWrite(stage, "nothing"))
              ELSE /\ mpc' = "gather"
                   /\ UNCHANGED <<wr, disk>>
    /\ UNCHANGED <<pipe, config, hascol, stage, orig, sem, lock, calls, pmap, count, faults, failures,
                   persisted>>

\* ------------------------------------------------------------------- tasks
\* a task enters the semaphore and issues its remote call
Acquire(i) ==
    /\ mpc = "gather" /\ LoopFree
    /\ task[i].pc = "queued"
    /\ SlotFree
    /\ NextInLine(i)
    /\ task' = [task EXCEPT ![i].pc = "call"]
    /\ sem' = sem - 1
    /\ calls' = [calls EXCEPT ![i] = @ + 1]
    /\ UNCHANGED <<pipe, cols, config, hascol, stage, orig, rows, disk, wr, lock, mpc, pmap, count, faults, failures, persisted>>

\* a task raises while it reads its row (a cell that is None), before any call
PromptFault(i) ==
    /\ mpc = "gather" /\ LoopFree
    /\ stage \in {"company_type", "assign_vert", "scoring"}
    /\ task[i].pc = "queued" /\ calls[i] = 0
    /\ stage # "scoring" => SlotFree /\ NextInLine(i)
    /\ faults < MaxFaults
    /\ faults' = faults + 1
    /\ task' = [task EXCEPT ![i].pc = "raised"]
    /\ UNCHANGED <<pipe, cols, config, hascol, stage, orig, rows, disk, wr, sem, lock, mpc, calls, pmap, count, failures, persisted>>

\* if attempt < MAX_RETRIES: another attempt follows the one that failed
RetryLeftOffByOne(attempt) == attempt <= MAX_RETRIES
RetryLeft(attempt) == attempt < MAX_RETRIES

\* an attempt fails or times out and another attempt is left: back off
CallFailRetry(i, o) ==
    /\ mpc = "gather" /\ LoopFree
    /\ stage \in RetryStages
    /\ task[i].pc = "call"
    /\ o.kind # "ok"
    /\ RetryLeft(task[i].attempt)
    /\ task' = [task EXCEPT ![i].pc = "sleep",
                            ![i].waits = Append(@, Backoff(task[i].attempt))]
    /\ sem' = IF HoldsSlotWholeTask THEN sem ELSE sem + 1
    /\ failures < MaxFailures
    /\ failures' = failures + 1
    /\ UNCHANGED <<pipe, cols, config, hascol, stage, orig, rows, disk, wr, lock, mpc, calls, pmap, count, faults, persisted>>

\* the remote service never answers.  Where the call is wrapped in
\* asyncio.wait_for the attempt ends after REQUEST_TIMEOUT as a timeout (an
\* outcome of CallFailRetry and CallEnd); website_info awaits the call bare
Hang(i) ==
    /\ mpc = "gather" /\ LoopFree
    /\ stage = "website_info"
    /\ task[i].pc = "call"
    /\ failures < MaxFailures
    /\ failures' = failures + 1
    /\ task' = [task EXCEPT ![i].pc = "hung"]
    /\ UNCHANGED <<pipe, cols, config, hascol, stage, orig, rows, disk, wr, sem, lock, mpc, calls, pmap, count,
                   faults, persisted>>

\* the backoff is over: the next attempt
Wake(i) ==
    /\ mpc = "gather" /\ LoopFree
    /\ task[i].pc = "sleep"
    /\ IF HoldsSlotWholeTask
       THEN /\ task' = [task EXCEPT ![i].pc = "call", ![i].attempt = @ + 1]
            /\ calls' = [calls EXCEPT ![i] = @ + 1]
       ELSE /\ task' = [task EXCEPT ![i].pc = "queued", ![i].attempt = @ + 1]
            /\ UNCHANGED calls
    /\ UNCHANGED <<pipe, cols, config, hascol, stage, orig, rows, disk, wr, sem, lock, mpc, pmap, count, faults, failures, persisted>>

\* the rows a per-row (or batched) save writes, mem being the rows in memory
\* with the task's output already stored in its own row
PerRowContentStale(st, mem, file, pm, i, output) == SetOut(orig, i, output)
PerRowContent(st, mem, file, pm, i, output) ==
    CASE st = "assign_vert" ->
           \* for r in rows: if r[URL] == url: r[VERTICAL_COL] = output; break
           SetOut(mem, FirstWithKey(mem, mem[i].key), output)
      [] st = "scoring" ->
           \* re-read the file, update the first row with the URL, else append
           IF HasKey(file, mem[i].key)
           THEN SetOut(file, FirstWithKey(file, mem[i].key), output)
           ELSE Append(file, mem[i])
      [] st = "sub_vertical" ->
           \* save_progress: rows whose Record ID is in processed_map are replaced
           [j \in 1..Len(mem) |->
              IF mem[j].key # "" /\ pm[mem[j].key] # 0 THEN mem[pm[mem[j].key]] ELSE mem[j]]
      [] OTHER -> mem

\* does the stage write the file when this task has its output
SavesAtEndOnly(st, cnt, total) == st # "company_type" /\ (st = "sub_vertical" => cnt = total)
SavesNow(st, cnt, total) ==
    CASE st = "company_type" -> FALSE
      [] st = "sub_vertical" -> cnt % SaveEvery = 0 \/ cnt = total
      [] OTHER -> TRUE

\* does the task leave `async with SEMAPHORE` when its call chain has ended and
\* it goes on to next: where the slot spans the whole task, only once the save
\* is over or has raised
ReleasesOnReturn(next) == ~HoldsSlotWholeTask \/ next = "done"
Releases(next) == ~HoldsSlotWholeTask \/ next # "saving"

\* the last attempt of a task ends (success, or failure with no attempt left):
\* the output is stored in the row and, per the stage's cadence, the file
\* write begins; f: opening the file fails
CallEnd(i, o, f) ==
    /\ mpc = "gather" /\ LoopFree
    /\ task[i].pc = "call"
    /\ o.kind = "ok" \/ stage \notin RetryStages \/ ~RetryLeft(task[i].attempt)
    /\ LET output == IF o.kind = "ok" THEN ExtractText(stage, o.text)
                     ELSE ErrorString(stage, o.kind)
           mem    == SetOut(rows, i, output)
           pm     == IF stage = "sub_vertical" THEN [pmap EXCEPT ![rows[i].key] = i] ELSE pmap
           cnt    == IF stage = "sub_vertical" THEN count + 1 ELSE count
           saves  == SavesNow(stage, cnt, Cardinality(Tasks))
           content == PerRowContent(stage, mem, disk.rows, pm, i, output)
           next   == IF ~saves THEN "done"
                     ELSE IF ~f THEN "saving"
                     ELSE IF stage = "scoring" THEN "done" ELSE "raised"
       IN  /\ f => saves /\ faults < MaxFaults
           \* async with file_lock
           /\ (saves /\ stage \in LockStages) => lock = 0
           /\ o.kind # "ok" => failures < MaxFailures
           /\ failures' = IF o.kind # "ok" THEN failures + 1 ELSE failures
           /\ task' = [task EXCEPT ![i].pc = next, ![i].last = o.kind, ![i].output = output]
           /\ rows' = IF stage = "assign_vert" THEN content ELSE mem
           /\ pmap' = pm
           /\ count' = cnt
           /\ sem' = IF Releases(next) THEN sem + 1 ELSE sem
           /\ lock' = IF next = "saving" /\ stage \in LockStages THEN i ELSE lock
           /\ wr' = IF next = "saving" THEN [who |-> i, content |-> content] ELSE NoWrite
           /\ disk' = IF next = "saving" THEN Opened(disk, AtomicWrite(stage, "row")) ELSE disk
           /\ faults' = IF f THEN faults + 1 ELSE faults
    /\ UNCHANGED <<pipe, cols, config, hascol, stage, orig, mpc, calls, persisted>>

\* the task's file write completes (close, or os.replace of the temp file)
SaveEnd(i) ==
    /\ wr.who = i
    /\ task[i].pc = "saving"
    /\ disk' = [rows |-> wr.content, complete |-> TRUE]
    /\ cols' = [cols EXCEPT !.file = WriteCols(stage, "row", cols)]
    /\ wr' = NoWrite
    /\ lock' = 0
    /\ task' = [task EXCEPT ![i].pc = "done"]
    /\ sem' = IF HoldsSlotWholeTask THEN sem + 1 ELSE sem
    /\ persisted' = IF stage = "sub_vertical"
                    THEN persisted \cup {j \in Idx : /\ task[j].last # "none"
                                                     /\ task[j].pc \in {"done", "saving", "raised"}}
                    ELSE persisted \cup {i}
    /\ UNCHANGED <<pipe, config, hascol, stage, orig, rows, mpc, calls, pmap, count, faults, failures>>

\* ------------------------------------------------- the dispatcher's merge
\* the last task with key k among the tasks in S (processed_map keeps the last)
LastTaskWithKey(mem, S, k) ==
    CHOOSE j \in S : mem[j].key = k /\ \A l \in S : mem[l].key = k => l <= j

\* the rows in memory after the dispatcher has converted the exceptions
AfterGather(st, mem) ==
    IF st = "company_type"
    THEN [j \in 1..Len(mem) |->
            IF task[j].pc = "raised" THEN [mem[j] EXCEPT !.out = TaskErrorString(st)] ELSE mem[j]]
    ELSE mem

\* the rows of the final write
FinalRows(st, mem) ==
    CASE st = "company_type" ->
           [j \in 1..Len(mem) |->
              IF \E l \in Tasks : mem[l].key = mem[j].key
              THEN AfterGather(st, mem)[LastTaskWithKey(mem, Tasks, mem[j].key)]
              ELSE AfterGather(st, mem)[j]]
      [] st = "assign_vert" ->
           LET D == {l \in Tasks : task[l].pc = "done"}
           IN  [j \in 1..Len(mem) |->
                  IF \E l \in D : mem[l].key = mem[j].key
                  THEN mem[LastTaskWithKey(mem, D, mem[j].key)]
                  ELSE mem[j]]
      [] st = "sub_vertical" ->
           [j \in 1..Len(mem) |->
              IF mem[j].key # "" /\ pmap[mem[j].key] # 0 THEN mem[pmap[mem[j].key]] ELSE mem[j]]
      [] OTHER ->
           \* scoring: normalized_rows, by position
           [j \in 1..Len(mem) |->
              IF task[j].pc = "raised" THEN [mem[j] EXCEPT !.out = TaskErrorString(st)] ELSE mem[j]]

\* asyncio.gather(*tasks, return_exceptions=True) returns when every task has
\* returned or raised
AnyTerminal == \E i \in Idx : task[i].pc \in Terminal \ {"idle"}
AllReturned == \A i \in Idx : task[i].pc \in {"idle", "done"}
AllTerminal == \A i \in Idx : task[i].pc \in Terminal

\* gather(return_exceptions=True) returns: merge and begin the final write
GatherDone ==
    /\ mpc = "gather" /\ LoopFree
    /\ stage # "website_info"
    /\ AllTerminal
    /\ rows' = AfterGather(stage, rows)
    /\ wr' = [who |-> Main, content |-> FinalRows(stage, rows)]
    /\ disk' = Opened(disk, AtomicWrite(stage, "final"))
    /\ mpc' = "final"
    /\ UNCHANGED <<pipe, cols, config, hascol, stage, orig, task, sem, lock, calls, pmap, count, faults, failures, persisted>>

\* the dispatcher's file write completes
FinalEnd ==
    /\ mpc = "final"
    /\ wr.who = Main
    /\ disk' = [rows |-> wr.content, complete |-> TRUE]
    /\ cols' = [cols EXCEPT !.file = WriteCols(stage, "final", cols)]
    /\ wr' = NoWrite
    /\ mpc' = "done"
    /\ persisted' = persisted \cup {j \in Idx : task[j].pc = "done" /\ task[j].last # "none"}
    /\ UNCHANGED <<pipe, config, hascol, stage, orig, rows, task, sem, lock, calls, pmap, count, faults, failures>>

\* website_info: gather(*tasks) returns, there is no final write
WebsiteDone ==
    /\ mpc = "gather" /\ LoopFree
    /\ stage = "website_info"
    /\ \A i \in Idx : task[i].pc \in {"idle", "done"}
    /\ mpc' = "done"
    /\ UNCHANGED <<pipe, cols, config, hascol, stage, orig, rows, disk, wr, task, sem, lock, calls, pmap, count, faults, failures, persisted>>

\* website_info: gather(*tasks) re-raises the first exception; asyncio.run
\* cancels the tasks that are still pending
Abort ==
    /\ mpc = "gather" /\ LoopFree
    /\ stage = "website_info"
    /\ \E i \in Idx : task[i].pc = "raised"
    /\ mpc' = "aborted"
    /\ task' = [i \in Idx |->
                  IF task[i].pc \in Terminal THEN task[i] ELSE [task[i] EXCEPT !.pc = "cancelled"]]
    /\ sem' = CapOf(stage)
    /\ UNCHANGED <<pipe, cols, config, hascol, stage, orig, rows, disk, wr, lock, calls, pmap, count, faults, failures, persisted>>

Next ==
    \/ ImportModule
    \/ ImportEnd
    \/ Refuse
    \/ Prepare
    \/ \E i \in Idx : Acquire(i)
    \/ \E i \in Idx : PromptFault(i)
    \/ \E i \in Idx : \E o \in Outcomes[stage] : CallFailRetry(i, o)
    \/ \E i \in Idx : Hang(i)
    \/ \E i \in Idx : Wake(i)
    \/ \E i \in Idx : \E o \in Outcomes[stage] : \E f \in BOOLEAN : CallEnd(i, o, f)
    \/ \E i \in Idx : SaveEnd(i)
    \/ GatherDone
    \/ FinalEnd
    \/ WebsiteDone
    \/ Abort

Spec == Init /\ [][Next]_vars

\* the event loop runs a task that is ready and every timer fires
FairSpec == Spec /\ WF_vars(Next)

\* ------------------------------------------------------------- main.py
\* the functions main.py calls, in its order
StepNames ==
    <<"url_cleaner", "perplexity_call", "run_bad_reason_cleaner", "web_info_parser",
      "comp_type_classifier", "gpt_vert_call", "sub_vertical_classifier",
      "clear_error_sub_vertical">>

Steps == 1..Len(StepNames)
StepOf(name) == CHOOSE k \in Steps : StepNames[k] = name

\* sub_vertical's INPUT_CSV: its default, or the environment names the file
\* the cleaner works on
SubVerticalInputs ==
    {"Website_comp_info_company_type.csv", "Website_comp_info_company_type_v2.csv"}

\* the file a step reads
StepIn(k, subin) ==
    CASE k = 1 -> "Unknown Vert.csv"
      [] k = 2 -> "cleaned_url_unknown_vert.csv"
      [] k = 3 -> "net_new_web_info.csv"
      [] k = 4 -> "net_new_web_info.csv"
      [] k = 5 -> "Website_comp_info_parsed_v2.csv"
      [] k = 6 -> "net_new_web_info_company_type_parsed.csv"
      [] k = 7 -> subin
      [] OTHER -> "Website_comp_info_company_type_v2.csv"

\* the file a step writes
StepOut(k, subin) ==
    CASE k = 1 -> "cleaned_url_unknown_vert.csv"
      [] k = 2 -> "Website_comp_info.csv"
      [] k = 4 -> "net_new_web_info_parsed.csv"
      [] k = 5 -> "Website_comp_info_company_type_v2.csv"
      [] OTHER -> StepIn(k, subin)

\* the files that come from outside the pipeline, and all files
InputFiles == {StepIn(k, f) : k \in Steps, f \in SubVerticalInputs}
FileNames == InputFiles \cup {StepOut(k, f) : k \in Steps, f \in SubVerticalInputs}

\* a missing input: open() raises and ends main.py, or the step prints and returns
RaisesIfMissing(k) == k \in {1, 2, 3, 4, 6}

\* a file: the steps that have written it, one on top of the other, and its
\* Sub Vertical column
BlankCells == [i \in Idx |-> <<>>]
Absent == [exists |-> FALSE, lineage |-> <<>>, cells |-> BlankCells]

\* Sub Vertical cells a file can hold before main.py runs
CellVals == {<<>>, <<"Meat">>, <<SP, "ERROR", ":", SP, "boom">>, <<"ERROR", " after ">>}

\* reason_timeout: the cell is blanked
Qualifies(cell) == StartsWith(Strip(cell), ErrorPrefix)
Clean(cells) == [i \in Idx |-> IF Qualifies(cells[i]) THEN <<>> ELSE cells[i]]

\* what sub_vertical can do with a row: leave it, or store an answer or an
\* error string
SubResults ==
    {<<"keep">>, ExtractText("sub_vertical", <<"Meat", SP>>),
     ErrorString("sub_vertical", "timeout"), ErrorString("sub_vertical", "error")}

\* the Sub Vertical column of the file a step writes
StepCells(k, cells, res) ==
    CASE k = 1 -> BlankCells      \* KEEP_COLS only
      [] k = 7 -> [i \in Idx |->
                     IF Strip(cells[i]) = <<>> /\ res[i] # <<"keep">> THEN res[i] ELSE cells[i]]
      [] k = 8 -> Clean(cells)
      [] OTHER -> cells

\* does the step write its file: the cleaner only when it blanked a cell
Rewrites(k, cells) == k = 8 => \E i \in Idx : Qualifies(cells[i])

\* no stage is run on its own
StageIdle ==
    /\ stage = "sub_vertical" /\ orig = <<>> /\ rows = <<>>
    /\ disk = [rows |-> <<>>, complete |-> TRUE] /\ wr = NoWrite
    /\ task = [i \in Idx |-> IdleTask]
    /\ sem = CapOf(stage) /\ lock = 0 /\ mpc = "pipeline"
    /\ calls = [i \in Idx |-> 0] /\ pmap = [k \in Keys |-> 0]
    /\ count = 0 /\ faults = 0 /\ failures = 0 /\ persisted = {}
    /\ config = "ok" /\ hascol = TRUE
    /\ cols = [orig |-> {}, file |-> {}, names |-> {}]

PipeInit ==
    /\ StageIdle
    /\ \E subin \in SubVerticalInputs, present \in SUBSET InputFiles,
          c2 \in [Idx -> CellVals], cs \in [Idx -> {<<>>, <<"Meat">>}] :
          pipe = [pc |-> 1, running |-> FALSE, ran |-> 0, loaded |-> Absent, subin |-> subin,
                  files |-> [f \in FileNames |->
                     IF f \notin present THEN Absent
                     ELSE [exists |-> TRUE, lineage |-> <<>>,
                           cells |-> IF f = "Website_comp_info_company_type_v2.csv" THEN c2
                                     ELSE IF f = "Website_comp_info_company_type.csv" THEN cs
                                     ELSE BlankCells]]]

\* main.py calls the next function, which loads its input
StepStart(k) ==
    /\ pipe.pc = k /\ ~pipe.running
    /\ LET f == pipe.files[StepIn(k, pipe.subin)]
       IN  pipe' = IF f.exists THEN [pipe EXCEPT !.running = TRUE, !.ran = k, !.loaded = f]
                   ELSE [pipe EXCEPT !.pc = IF RaisesIfMissing(k) THEN 0 ELSE k + 1]
    /\ UNCHANGED stagevars

\* the function writes its file and returns
StepFinish(k, res) ==
    /\ pipe.pc = k /\ pipe.running
    /\ k # StepOf("sub_vertical_classifier") => res = [i \in Idx |-> <<"keep">>]
    /\ pipe' = [pipe EXCEPT
                  !.pc = k + 1, !.running = FALSE,
                  !.files[StepOut(k, pipe.subin)] =
                      IF Rewrites(k, pipe.loaded.cells)
                      THEN [exists |-> TRUE, lineage |-> Append(pipe.loaded.lineage, k),
                            cells |-> StepCells(k, pipe.loaded.cells, res)]
                      ELSE @]
    /\ UNCHANGED stagevars

PipeNext ==
    \/ \E k \in Steps : StepStart(k)
    \/ \E k \in Steps : \E res \in [Idx -> SubResults] : StepFinish(k, res)

PipeSpec == PipeInit /\ [][PipeNext]_vars

\* ------------------------------------------------------------------ claims
\* remote calls in flight
InFlight == Cardinality({i \in Idx : task[i].pc = "call"})

\* the tasks that reach the remote call (scoring also creates a task for every
\* other row, which returns at once)
Workers == {i \in Idx : task[i].pc # "idle" /\ ~(task[i].pc = "done" /\ task[i].last = "none")}

C2_AtomicSaves == disk.complete

\* some row of the file with key k holds v in the output column
HasResult(file, k, v) == \E j \in 1..Len(file) : file[j].key = k /\ file[j].out = v

\* no other task that reaches the call has the key of task i
KeyOfItsOwn(i) == \A j \in Workers \ {i} : orig[j].key # orig[i].key

C4_DoneRowsUnchanged ==
    disk.complete =>
       \A i \in Idx :
          orig[i].out # <<>> => (i <= Len(disk.rows) /\ disk.rows[i].out = orig[i].out)

\* per stage, the texts a successful call can leave in the output column
SuccessTexts == [st \in Stages |-> {ExtractText(st, r) : r \in Replies[st]}]

\* C5: in the stages with retry, a call that fails k < MAX_RETRIES times and then
\* succeeds yields the text of the successful response, not an error string,
\* after exactly k backoff waits, the n-th of 2^(n-1).
C5_RetryThenSuccess ==
    \A i \in Idx :
       (stage \in RetryStages /\ task[i].last = "ok") =>
          /\ task[i].attempt <= MAX_RETRIES
          /\ calls[i] = task[i].attempt
          /\ Len(task[i].waits) = task[i].attempt - 1
          /\ \A n \in 1..Len(task[i].waits) : task[i].waits[n] = 2 ^ (n - 1)
          /\ \A n \in 2..Len(task[i].waits) : task[i].waits[n] > task[i].waits[n - 1]
          /\ task[i].output \in SuccessTexts[stage]
          /\ ~Contains(task[i].output, "ERROR")

\* a call failed twice and succeeded on the third attempt
C5_Witness ==
    \E i \in Idx :
       /\ stage \in RetryStages
       /\ task[i].last = "ok"
       /\ task[i].attempt = MAX_RETRIES
       /\ task[i].waits = <<1, 2>>

\* C6: in the stages with retry, a call that fails on every attempt is attempted
\* exactly MAX_RETRIES times and leaves a string that contains ERROR and the
\* number of attempts.
C6_Exhaustion ==
    \A i \in Idx :
       (stage \in RetryStages /\ task[i].last \in {"timeout", "error"}) =>
          /\ calls[i] = MAX_RETRIES
          /\ Contains(task[i].output, "ERROR")
          /\ Contains(task[i].output, ToString(calls[i]))

\* C7: a task that raises terminates no sibling and not the dispatcher, and when
\* the batch is done its row holds an error string.
C7_FaultIsolated ==
    \A i \in Idx :
       task[i].pc = "raised" =>
          /\ mpc # "aborted"
          /\ \A j \in Idx : task[j].pc # "cancelled"
          /\ mpc = "done" => (disk.complete /\ StartsWith(disk.rows[i].out, <<"ERROR">>))

\* C8: every saved version of the file has the input's rows, in the input's
\* order, each equal to the input row in all but the output column.
C8_RowsPreserved ==
    disk.complete =>
       /\ Len(disk.rows) = Len(orig)
       /\ \A i \in Idx :
             /\ disk.rows[i].key = orig[i].key
             /\ disk.rows[i].body = orig[i].body
             /\ disk.rows[i].pre = orig[i].pre

\* C9: an eligible row whose every remote call succeeded has, in the final file,
\* an output that is non-empty and does not start with ERROR.
C9_SuccessNonEmpty ==
    (mpc = "done" /\ disk.complete) =>
       \A i \in Idx :
          (task[i].last = "ok" /\ calls[i] = 1) =>
             /\ disk.rows[i].out # <<>>
             /\ ~StartsWith(disk.rows[i].out, <<"ERROR">>)

\* the row's output column is empty and the stage's prerequisite fails
Ineligible(i) == orig[i].out = <<>> /\ ~Eligible(stage, orig[i])

\* C10: no remote call is ever issued for a row that fails the eligibility
\* predicate, and every saved version of the file has its output column empty.
C10_IneligibleUntouched ==
    \A i \in Idx :
       Ineligible(i) =>
          /\ calls[i] = 0
          /\ disk.complete => disk.rows[i].out = <<>>

\* the tasks that have their result (their call chain has ended)
Completed == {i \in Idx : task[i].last # "none"}

\* the stage's cadence: a save is due after every CadenceOf completed rows
CadenceOf(st) == IF st = "sub_vertical" THEN SaveEvery ELSE 1

\* C11: while the batch is still running, a stage that has completed more rows
\* than its cadence N (and whose saves have not failed) has written completed
\* results to its dataset file: they are not all held in memory until the end.
C11_IncrementalSaves ==
    (mpc = "gather" /\ LoopFree /\ faults = 0 /\ Cardinality(Completed) > CadenceOf(stage))
       => persisted # {}

\* the results obtained that no completed write has put in the dataset file
Unsaved == Completed \ persisted

\* no save of a task has failed
NoSaveFailed == \A i \in Idx : task[i].pc # "raised"

C13_ConfigErrorAborts ==
    config # "ok" =>
       /\ \A i \in Idx : calls[i] = 0
       /\ Workers = {}
       /\ disk = [rows |-> orig, complete |-> TRUE]
       /\ wr = NoWrite

\* C14: every failure value a stage stores in the output column (timeout,
\* remote error, exhausted retries, captured task exception) begins with
\* ERROR: and no success value does.
C14_ErrorPrefix ==
    \A i \in Idx :
       /\ task[i].last \in {"timeout", "error"} => StartsWith(task[i].output, ErrorPrefix)
       /\ task[i].last = "ok" => ~StartsWith(task[i].output, ErrorPrefix)
       /\ (mpc = "done" /\ task[i].pc = "raised" /\ task[i].last = "none"
             /\ disk.rows[i].out # orig[i].out
             /\ KeyOfItsOwn(i))
            => StartsWith(disk.rows[i].out, ErrorPrefix)

\* the reorderings of a file of NumRows rows
Perms == {p \in [Idx -> Idx] : \A i, j \in Idx : p[i] = p[j] => i = j}
Permuted(seq, p) == [i \in Idx |-> seq[p[i]]]

\* what resume decides for row i of the input mem, given the saved file: the
\* row as merged with its saved value, and whether it goes to the classifier
ResumeView(st, mem, file, i) ==
    [row |-> Loaded(st, mem, file)[i], work |-> WorkItem(st, mem, file, i)]

\* C15: in the stages that resume from a saved output file (company_type,
\* website_info), reordering the saved file changes nothing in what resume
\* decides for a row, and reordering the input reorders the decisions alike.
C15_ResumeByKey ==
    (mpc = "start" /\ stage \in TwoFileStages) =>
       \A p \in Perms : \A i \in Idx :
          /\ ResumeView(stage, rows, Permuted(disk.rows, p), i)
                = ResumeView(stage, rows, disk.rows, i)
          /\ ResumeView(stage, Permuted(rows, p), disk.rows, i)
                = ResumeView(stage, rows, disk.rows, p[i])

\* C16: each attempt is bounded by the per-call timeout, so a remote call that
\* never responds blocks nothing for good: every task of the work list, the one
\* whose call hangs and those that wait behind it, reaches a terminal state.
C16_HangBlocksOnlyItsRow ==
    \A i \in Idx : (task[i].pc = "queued") ~> (task[i].pc \in Terminal)

\* slots of the semaphore that are taken
SlotsHeld == CapOf(stage) - sem

\* C17: a slot is held only while a remote call is awaited: no task holds one
\* while it sleeps in a retry backoff or while it writes the dataset file.
C17_SlotOnlyDuringCall ==
    SlotsHeld = Cardinality({i \in Idx : task[i].pc \in {"call", "hung"}})

\* C18: the dispatcher merges, writes the final file and reports completion
\* only when every task of the work list is terminal (returned or raised): no
\* task is running or waiting once the final save has started.
C18_JoinBeforeDone ==
    mpc \in {"final", "done"} => \A i \in Idx : task[i].pc \in Terminal

\* the final save starts after one task has raised and another has returned
C18_Witness ==
    /\ mpc = "final" /\ wr.who = Main
    /\ \E i, j \in Idx : /\ task[i].pc = "raised"
                          /\ task[j].pc = "done" /\ task[j].last # "none"

\* the write of task i's result failed and the error left the task
SaveRaised(i) == task[i].pc = "raised" /\ task[i].last # "none"

\* C19: a save that fails does not crash the stage: the batch is not aborted,
\* no other task is cancelled and the result stays in the row in memory.
C19_SaveFailureTolerated ==
    \A i \in Idx :
       SaveRaised(i) =>
          /\ mpc # "aborted"
          /\ \A j \in Idx : task[j].pc # "cancelled"
          /\ KeyOfItsOwn(i) => rows[i].out = task[i].output

\* the literal sentinel
NA == <<"N/A">>

\* is row i selected for processing when its prerequisite column holds v
SelectedWithPre(i, v) ==
    WorkItem(stage, [rows EXCEPT ![i].pre = v], [disk.rows EXCEPT ![i].pre = v], i)

\* is row i selected for processing when its output column holds v
SelectedWithOut(i, v) ==
    WorkItem(stage, [rows EXCEPT ![i].out = v], [disk.rows EXCEPT ![i].out = v], i)

\* C20: the empty string and the literal N/A are equivalent in the eligibility
\* checks: putting one in place of the other in the prerequisite column or in
\* the output column of a row does not change whether the row is selected.
C20_SentinelsEquivalent ==
    mpc = "start" =>
       \A i \in Idx :
          /\ SelectedWithPre(i, "") <=> SelectedWithPre(i, "N/A")
          /\ SelectedWithOut(i, <<>>) <=> SelectedWithOut(i, NA)

\* C21: every saved version of a stage's dataset file has every column the
\* file had when the stage started (the columns of the input and of the
\* previously saved output): a stage adds columns and loses none.
C21_ColumnsKept == disk.complete => cols.orig \subseteq cols.file

\* the step that ran before step k
Previous(k) == k - 1

\* C22: main.py runs its steps one after another, and the file a step loads
\* is the file the step before it has just persisted.
C22_StagesChained ==
    \A k \in Steps \ {1} :
       (pipe.pc = k /\ pipe.running) =>
          /\ pipe.loaded.lineage # <<>>
          /\ pipe.loaded.lineage[Len(pipe.loaded.lineage)] = Previous(k)

\* the stages that save after every row
PerRowStages == {"assign_vert", "scoring", "website_info"}

\* the rows whose result has been obtained from the classifier and is not in
\* the dataset file as a kill would leave it
NotOnDisk ==
    {i \in Idx : /\ task[i].last = "ok" /\ task[i].output # <<>>
                 /\ ~(disk.complete /\ HasResult(disk.rows, orig[i].key, task[i].output))}

\* C23: in the stages that save after every row, at every point where the
\* process could be killed, at most one row has a result obtained from the
\* classifier that the dataset file on disk does not contain.
C23_AtMostOneUnsaved == stage \in PerRowStages => Cardinality(NotOnDisk) <= 1

\* the tasks between the start of their merge and the end of their write
Saving == {i \in Idx : task[i].pc = "saving"}

C25_AttemptsSequential ==
    \A i \in Idx :
       stage \in RetryStages =>
          /\ calls[i] <= MAX_RETRIES
          /\ task[i].attempt <= MAX_RETRIES
          /\ Len(task[i].waits) <= MAX_RETRIES - 1
          /\ \A n \in 1..Len(task[i].waits) : task[i].waits[n] = 2 ^ (n - 1)
          /\ task[i].pc = "call" => (calls[i] = task[i].attempt /\ Len(task[i].waits) = calls[i] - 1)
          /\ task[i].pc = "sleep" => (calls[i] = task[i].attempt /\ Len(task[i].waits) = calls[i])
          /\ task[i].pc = "queued" =>
                 (calls[i] = task[i].attempt - 1 /\ Len(task[i].waits) = calls[i])
          /\ task[i].last \in {"timeout", "error"} =>
                 (calls[i] = MAX_RETRIES /\ Len(task[i].waits) = MAX_RETRIES - 1)

\* a row whose every attempt failed: MAX_RETRIES calls, two waits
C25_Witness ==
    \E i \in Idx :
       /\ stage \in RetryStages
       /\ task[i].last \in {"timeout", "error"}
       /\ calls[i] = MAX_RETRIES
       /\ task[i].waits = <<1, 2>>

\* the tasks inside `async with SEMAPHORE`
Holders ==
    {i \in Idx : task[i].pc \in (IF HoldsSlotWholeTask THEN {"call", "hung", "sleep", "saving"}
                                  ELSE {"call"})}

\* C26: slots are conserved on all exit paths: the slots held by tasks plus
\* the free slots are C in every state, a task that has ended (by success,
\* error string, timeout or exception) holds none, and when the batch is over
\* all C slots are free.
C26_SlotsConserved ==
    /\ sem + Cardinality(Holders) = CapOf(stage)
    /\ sem \in 0..CapOf(stage)
    /\ mpc \in {"final", "done", "aborted"} => sem = CapOf(stage)

\* the batch is over after a task that held a slot left it by an exception
C26_Witness ==
    /\ mpc \in {"done", "aborted"}
    /\ sem = CapOf(stage)
    /\ \E i \in Idx : task[i].pc = "raised" /\ calls[i] > 0

\* C27: loading a stage module reads, writes and changes nothing: while the
\* module is being imported, before its entry point is called, no write is
\* under way and the dataset file is as it was.
C27_ImportHasNoEffect ==
    mpc \in {"import", "importing"} =>
       /\ wr = NoWrite
       /\ disk = [rows |-> orig, complete |-> TRUE]
       /\ cols.file = cols.orig

\* main.py has returned from its last call
PipeDone == pipe.pc = Len(StepNames) + 1

\* the file the cleaner works on, and the dataset file of sub_vertical
CleanedFile == pipe.files[StepIn(StepOf("clear_error_sub_vertical"), pipe.subin)]
SubVerticalFile == pipe.files[StepIn(StepOf("sub_vertical_classifier"), pipe.subin)]

\* C28: once the cleaner has run, the Sub Vertical cells whose trimmed value
\* starts with ERROR: are empty and every other cell is as it was; the file is
\* not rewritten when no cell qualified; cleaning again changes nothing; a
\* blanked cell is an empty output for sub_vertical; and no row of
\* sub_vertical's dataset file is left with an error, so the rows that ended
\* in an error are taken up again by the next pass.
C28_CleanerRetriesErrors ==
    (PipeDone /\ pipe.ran = StepOf("clear_error_sub_vertical")) =>
       LET before == pipe.loaded.cells
           after  == CleanedFile.cells
       IN  /\ \A i \in Idx : after[i] = IF Qualifies(before[i]) THEN <<>> ELSE before[i]
           /\ (\A i \in Idx : ~Qualifies(before[i])) => CleanedFile = pipe.loaded
           /\ Clean(after) = after
           /\ \A i \in Idx : Qualifies(before[i]) => Pending([out |-> after[i]])
           /\ SubVerticalFile.exists => \A i \in Idx : ~Qualifies(SubVerticalFile.cells[i])

\* a remote call never returns, fails or times out
SomeCallHangs == \E i \in Idx : task[i].pc = "hung"

\* the batch is over: the dispatcher has ended, every task is terminal, no
\* write is under way, the lock and all slots are free
BatchOver ==
    /\ mpc \in {"done", "aborted", "refused"}
    /\ \A i \in Idx : task[i].pc \in Terminal
    /\ wr = NoWrite /\ lock = 0 /\ sem = CapOf(stage)

\* C29: every stage batch terminates without deadlock: provided each remote
\* call returns, fails or is cut off, the batch is eventually over, every task
\* terminal and, unless a save has failed, the last save performed.
C29_BatchTerminates ==
    <>(SomeCallHangs \/ (BatchOver /\ (faults = 0 => (mpc # "aborted" /\ disk.complete))))

\* the batch is done after a task waited in backoff inside the semaphore while
\* another task, which got its call later, waited for the slot
C29_Witness ==
    /\ mpc = "done" /\ HoldsSlotWholeTask
    /\ \E i, j \in Idx : i # j /\ Len(task[i].waits) > 0 /\ calls[j] > 0

\* a write of the dataset file begins on top of a version this run has saved
SaveOverSaved == persisted # {} /\ disk.complete /\ wr.who = 0 /\ wr'.who # 0

\* C30: persisted progress is monotone within a run: a non-empty output value
\* that a saved version of the file holds for a row is held, unchanged, by
\* every version the run saves after it, the final save included.
C30_ProgressMonotone ==
    [][SaveOverSaved =>
          \A i \in Idx :
             disk.rows[i].out # <<>> =>
                (i <= Len(wr'.content) /\ wr'.content[i].out = disk.rows[i].out)]_vars

\* every task has ended and the last per-row save is over: the dataset file is
\* the file after the last per-row save, the final write is about to begin
LastRowSaveDone ==
    /\ mpc = "gather" /\ LoopFree /\ AllTerminal
    /\ persisted # {} /\ disk.complete

\* C31: in scoring, for the runs in which no task raises and no save fails,
\* the file after the last per-row save and the rows of the final write are
\* equal row by row (the same Score for the same row), rows that share a URL
\* or have a blank URL included, and no per-row save appends a row.
C31_SavePathsAgree ==
    (stage = "scoring" /\ faults = 0) =>
       /\ disk.complete => Len(disk.rows) = Len(orig)
       /\ LastRowSaveDone => disk.rows = FinalRows(stage, rows)

\* the rows whose Record ID is blank
BlankId == {i \in Idx : orig[i].key = ""}

\* C32: in sub_vertical a row whose Record ID is blank is never sent to the
\* classifier (no task, no call) and no merge overwrites it: the rows in
\* memory, every write under way (batched or final) and every saved version of
\* the file hold it at its original position with its original content.
C32_BlankIdUntouched ==
    stage = "sub_vertical" =>
       \A i \in BlankId :
          /\ task[i] = IdleTask /\ calls[i] = 0
          /\ pmap[""] = 0
          /\ i <= Len(rows) /\ rows[i] = orig[i]
          /\ wr.who # 0 => (i <= Len(wr.content) /\ wr.content[i] = orig[i])
          /\ disk.complete /\ i <= Len(disk.rows) /\ disk.rows[i] = orig[i]

\* the batch is done: a row with a Record ID got an answer that the batched
\* saves and the final save wrote, next to a row with a blank Record ID
C32_Witness ==
    /\ stage = "sub_vertical" /\ mpc = "done"
    /\ \E i \in BlankId : \E j \in Idx \ BlankId :
          /\ task[j].last = "ok" /\ j \in persisted
          /\ disk.rows[j].out = task[j].output /\ task[j].output # <<>>
          /\ orig[i].pre = "ok" /\ orig[i].out = <<>>

\* the rows whose output column held an error string when the run started
FailedBefore == {i \in Idx : orig[i].out = ErrorString(stage, "error")}

\* C33: a row whose output column holds an error string left by an earlier
\* run counts as completed: the run skips it (it is not in the work list) and
\* issues no remote call for it.
C33_FailedRowNotRetried ==
    \A i \in FailedBefore :
       /\ calls[i] = 0
       /\ i \notin Workers

====
